---- MODULE Spec2Model ----
(***************************************************************************)
(* mediawarn NLP service: the job worker (app/worker.py), the subtitle     *)
(* segmenter (app/subtitle_parser.py) and the detection aggregator         *)
(* (app/models.py).                                                        *)
(*                                                                         *)
(* Scores are integers in thousandths (700 is 0.7), model weights in       *)
(* tenths (10 is 1.0), adjusted scores (score * weight) in ten-thousandths.*)
(* A comma-joined model_name is the sequence of the joined names.          *)
(* processing_time_ms and the metadata timestamp are wall-clock values     *)
(* that no decision of the code reads; they are left out of the rows.      *)
(*                                                                         *)
(* The worker is one asyncio task. pc is the await it is suspended at; an  *)
(* action runs the code from one await to the next. worker_task.cancel()   *)
(* (main.py, lifespan) is delivered once, as a CancelledError raised at    *)
(* the await the task is at; every await of the loop is taken as a place   *)
(* where that can happen. CancelledError derives from BaseException        *)
(* (Python 3.8 and later).                                                 *)
(*                                                                         *)
(* The store is a SQLAlchemy session: execute() adds a write to the open   *)
(* transaction, commit() makes the transaction's writes durable,           *)
(* rollback() drops them. execute() and commit() may raise; rollback() is  *)
(* taken to succeed.                                                       *)
(*                                                                         *)
(* Spec is the worker on static files and models that are functions of the *)
(* text, where the call of one model may raise; AggSpec is one call of     *)
(* analyze_text, followed by the summary of process_job, on drawn pipeline *)
(* outputs and model weights. RegSpec is the ModelManager loading and      *)
(* removing models, one action per await of a status write.                *)
(***************************************************************************)
EXTENDS Integers, Sequences, FiniteSets, TLC

\* ---------------------------------------------------------------- bounds
MaxQueue == 2
MaxFaults == 2
MaxPreds == 1

\* ------------------------------------------------------ small helpers
Max(a, b) == IF a >= b THEN a ELSE b
Min(a, b) == IF a <= b THEN a ELSE b

RECURSIVE SeqsUpTo(_, _)
SeqsUpTo(S, n) ==
    IF n = 0 THEN {<<>>}
    ELSE LET shorter == SeqsUpTo(S, n - 1)
         IN  shorter \cup {Append(s, x) : s \in {t \in shorter : Len(t) = n - 1}, x \in S}

\* ===================================================== app/models.py
\* The category configuration _load_categories reads (threshold and
\* severity_mapping per active category); sexual_assault is not an active row.
Categories ==
    [violence    |-> [threshold |-> 200, severity_mapping |-> [mild |-> 300, moderate |-> 600, severe |-> 800]],
     hate_speech |-> [threshold |-> 500, severity_mapping |-> [mild |-> 300, moderate |-> 600, severe |-> 800]]]

\* threshold value of a model config that sets none
NoThreshold == -1

\* The rows _load_models reads, ORDER BY weight DESC; self.models is a dict and
\* keeps this insertion order.
LoadedModels ==
    << [name |-> "toxic-bert", categories |-> <<"hate_speech", "violence">>, weight |-> 10,
        config |-> [threshold |-> NoThreshold, label_mappings |-> <<>>]],
       [name |-> "threat-net", categories |-> <<"violence">>, weight |-> 10,
        config |-> [threshold |-> NoThreshold, label_mappings |-> <<>>]] >>

\* str.upper() on the label alphabet of the model
Upper(label) ==
    CASE label = "threat" -> "THREAT"
      [] label = "toxic" -> "TOXIC"
      [] OTHER -> label

\* label_mappings table of _map_label_to_categories
BaseLabelMappings(model_categories) ==
    [TOXIC |-> <<"hate_speech", "violence">>,
     SEVERE_TOXIC |-> <<"hate_speech", "violence">>,
     OBSCENE |-> <<"hate_speech">>,
     THREAT |-> <<"violence">>,
     INSULT |-> <<"hate_speech">>,
     TOXICITY |-> <<"hate_speech", "violence">>,
     NSFW |-> <<"sexual_assault">>,
     NEGATIVE |-> model_categories,
     POSITIVE |-> <<>>]

\* _map_label_to_categories: config['label_mappings'] updates the base table
map_label_to_categories(label, model_categories, config) ==
    IF label \in DOMAIN config.label_mappings THEN config.label_mappings[label]
    ELSE IF label \in DOMAIN BaseLabelMappings(model_categories)
         THEN BaseLabelMappings(model_categories)[label]
         ELSE <<>>

\* defaults of mapping.get(...) in _score_to_severity, in thousandths
DefaultSevere == 800
DefaultModerate == 600
DefaultMild == 300
\* fallback bands for a category that is not configured
FallbackMild == 300
FallbackModerate == 600

BandOf(mapping, band, default) ==
    IF band \in DOMAIN mapping THEN mapping[band] ELSE default

\* _score_to_severity; score is the adjusted score in ten-thousandths
score_to_severity(score, category) ==
    IF category \notin DOMAIN Categories
    THEN IF score <= FallbackMild * 10 THEN "mild"
         ELSE IF score <= FallbackModerate * 10 THEN "moderate"
         ELSE "severe"
    ELSE LET mapping == Categories[category].severity_mapping
         IN  IF score >= BandOf(mapping, "severe", DefaultSevere) * 10 THEN "severe"
             ELSE IF score >= BandOf(mapping, "moderate", DefaultModerate) * 10 THEN "moderate"
             ELSE IF score >= BandOf(mapping, "mild", DefaultMild) * 10 THEN "mild"
             ELSE "none"

\* round(x, 3) of a value in ten-thousandths, to thousandths (to nearest)
Round3(x) == (x + 5) \div 10
\* round(x, 3) of a value in half-thousandths (an average of two rounded
\* scores), to thousandths
Round3Half(h) == (h + 1) \div 2

\* the result dict of one (prediction, category) pair, lines 189-205; <<>> when
\* the adjusted score is below the threshold
ResultFor(model_info, label, score, category, original_text) ==
    LET adjusted_score == score * model_info.weight
        threshold == IF model_info.config.threshold # NoThreshold
                     THEN model_info.config.threshold
                     ELSE Categories[category].threshold
    IN  IF adjusted_score >= threshold * 10
        THEN << [category |-> category,
                 severity |-> score_to_severity(adjusted_score, category),
                 score |-> Round3(adjusted_score),
                 confidence |-> Round3(Min(adjusted_score, 10000)),
                 model_name |-> <<model_info.name>>,
                 model_label |-> label,
                 text |-> original_text] >>
        ELSE <<>>

\* the inner loop "for category in detected_categories"
RECURSIVE ResultsForCategories(_, _, _, _, _)
ResultsForCategories(model_info, label, score, cats, original_text) ==
    IF cats = <<>> THEN <<>>
    ELSE (IF Head(cats) \in DOMAIN Categories
          THEN ResultFor(model_info, label, score, Head(cats), original_text)
          ELSE <<>>)
         \o ResultsForCategories(model_info, label, score, Tail(cats), original_text)

\* the loop "for pred in predictions"
RECURSIVE ResultsForPredictions(_, _, _)
ResultsForPredictions(model_info, preds, original_text) ==
    IF preds = <<>> THEN <<>>
    ELSE LET label == Upper(Head(preds).label)
             cats == map_label_to_categories(label, model_info.categories, model_info.config)
         IN  ResultsForCategories(model_info, label, Head(preds).score, cats, original_text)
             \o ResultsForPredictions(model_info, Tail(preds), original_text)

\* _run_model_analysis. predictions is what the pipeline returned:
\* [shape |-> "dicts", items |-> a list of label/score dicts], or a list whose
\* first element is no dict (shape "nested"), which yields no result.
run_model_analysis(model_info, predictions, original_text) ==
    IF predictions.shape = "dicts" /\ Len(predictions.items) > 0
    THEN ResultsForPredictions(model_info, predictions.items, original_text)
    ELSE <<>>

SeverityRank(s) ==
    CASE s = "mild" -> 1 [] s = "moderate" -> 2 [] s = "severe" -> 3 [] OTHER -> 0

\* the else branch of _combine_results, lines 266-283: existing is
\* combined[category], result the later detection of that category
MergeInto(existing, result) ==
    LET new_score == Round3Half(existing.score + result.score)
        new_confidence == Max(existing.confidence, result.confidence)
    IN  IF SeverityRank(result.severity) > SeverityRank(existing.severity)
        THEN [existing EXCEPT !.severity = result.severity,
                              !.score = new_score,
                              !.confidence = new_confidence,
                              !.model_name = existing.model_name \o result.model_name]
        ELSE existing

\* position of the entry of a category in the running map, 0 when absent
IndexOfCategoryAbsent(combined, category) == 0
IndexOfCategory(combined, category) ==
    IF \E k \in 1..Len(combined) : combined[k].category = category
    THEN CHOOSE k \in 1..Len(combined) : combined[k].category = category
    ELSE 0

\* one iteration of "for result in results"; combined is the dict in insertion
\* order
CombineStep(combined, result) ==
    LET k == IndexOfCategory(combined, result.category)
    IN  IF k = 0 THEN Append(combined, result)
        ELSE [combined EXCEPT ![k] = MergeInto(combined[k], result)]

RECURSIVE CombineFold(_, _)
CombineFold(combined, results) ==
    IF results = <<>> THEN combined
    ELSE CombineFold(CombineStep(combined, Head(results)), Tail(results))

\* _combine_results
combine_results(results) == CombineFold(<<>>, results)

\* the loop over self.models of analyze_text; outputs[m] is the pipeline's
\* return value for model m, or "raises" when the model call raises
RECURSIVE RunModels(_, _, _, _)
RunModels(models, outputs, m, original_text) ==
    IF m > Len(models) THEN <<>>
    ELSE (IF outputs[m].shape = "raises" THEN <<>>
          ELSE run_model_analysis(models[m], outputs[m], original_text))
         \o RunModels(models, outputs, m + 1, original_text)

\* "except Exception" around the call of one model in analyze_text: whether it
\* catches an exception of the class
AnalyzeCatchesNone(exc) == FALSE
AnalyzeCatches(exc) == exc = "Exception"

\* an exception of a model call leaves analyze_text
analyze_text_raises(outputs) ==
    \E m \in 1..Len(outputs) : outputs[m].shape = "raises" /\ ~AnalyzeCatches("Exception")

\* analyze_text
analyze_text(models, outputs, original_text) ==
    IF Len(models) = 0 THEN <<>>
    ELSE combine_results(RunModels(models, outputs, 1, original_text))

\* ============================================== app/subtitle_parser.py
\* The file system the worker reads. A subtitle file is the sequence of blocks
\* the format's pattern matches, in file order; raw is the block's text as a
\* sequence of tokens (words, markup tags "<...>" and line breaks "\n").
Block(number, start, end, raw) ==
    [number |-> number, start_time |-> start, end_time |-> end, raw |-> raw]

\* os.path.splitext(file_path)[1].lower()
FileExt(file_path) ==
    CASE file_path \in {"two.srt", "empty.srt", "gone.srt"} -> ".srt"
      [] file_path = "new.vtt" -> ".vtt"
      [] file_path = "movie.mkv" -> ".mkv"
      [] OTHER -> ".txt"

\* open(file_path).read() succeeds
Readable(file_path) == file_path \in {"two.srt", "empty.srt", "new.vtt", "extracted.srt"}

\* re.findall(pattern, content) of the file's content
FileBlocks(file_path) ==
    CASE file_path = "two.srt" ->
            << Block(1, "00:00:01,000", "00:00:02,000", <<"fight">>),
               Block(2, "00:00:03,000", "00:00:04,000", <<"<i>", "slur", "\n", "</i>">>) >>
      [] file_path = "empty.srt" ->
            << Block(1, "00:00:01,000", "00:00:02,000", <<"<b>", "</b>">>) >>
      [] file_path = "new.vtt" ->
            << Block(0, "00:00:01.000", "00:00:02.000", <<"<b>", "</b>", "\n">>),
               Block(0, "00:00:03.000", "00:00:04.000", <<"fight">>) >>
      [] file_path = "extracted.srt" ->
            << Block(1, "00:00:03,000", "00:00:04,000", <<"slur">>) >>
      [] OTHER -> <<>>

IsTag(tok) == tok \in {"<i>", "</i>", "<b>", "</b>"}

\* re.sub(r'<[^>]+>', '', text), then replace('\n', ' ').strip(): the words left
CleanText(raw) == SelectSeq(raw, LAMBDA tok : ~IsTag(tok) /\ tok # "\n")

\* convert_srt_time_to_seconds: time_str.replace(',', '.')
convert_srt_time_to_seconds(time_str) ==
    CASE time_str = "00:00:01,000" -> "00:00:01.000"
      [] time_str = "00:00:02,000" -> "00:00:02.000"
      [] time_str = "00:00:03,000" -> "00:00:03.000"
      [] time_str = "00:00:04,000" -> "00:00:04.000"
      [] OTHER -> time_str

\* convert_vtt_time_to_seconds
convert_vtt_time_to_seconds(time_str) == time_str

RECURSIVE SrtEntries(_)
SrtEntries(matches) ==
    IF matches = <<>> THEN <<>>
    ELSE LET m == Head(matches)
             text == CleanText(m.raw)
         IN  (IF text # <<>>
              THEN << [number |-> m.number,
                       start_time |-> convert_srt_time_to_seconds(m.start_time),
                       end_time |-> convert_srt_time_to_seconds(m.end_time),
                       text |-> text] >>
              ELSE <<>>)
             \o SrtEntries(Tail(matches))

\* parse_srt_content
parse_srt_content(matches) == SrtEntries(matches)

RECURSIVE VttEntries(_, _)
VttEntries(matches, i) ==
    IF i >= Len(matches) THEN <<>>
    ELSE LET m == matches[i + 1]
             text == CleanText(m.raw)
         IN  (IF text # <<>>
              THEN << [number |-> i + 1,
                       start_time |-> convert_vtt_time_to_seconds(m.start_time),
                       end_time |-> convert_vtt_time_to_seconds(m.end_time),
                       text |-> text] >>
              ELSE <<>>)
             \o VttEntries(matches, i + 1)

\* parse_vtt_content
parse_vtt_content(matches) == VttEntries(matches, 0)

\* parse_subtitle_text_file; "raise" is never its result: a failing open()
\* returns []
parse_subtitle_text_file(file_path, ext) ==
    IF ~Readable(file_path) THEN <<>>
    ELSE IF ext = ".srt" THEN parse_srt_content(FileBlocks(file_path))
    ELSE IF ext = ".vtt" THEN parse_vtt_content(FileBlocks(file_path))
    ELSE <<>>

\* what the two subprocess.run calls of extract_subtitles_from_video can do:
\* ffprobe is not installed (FileNotFoundError), ffprobe exits non-zero, ffmpeg
\* exits non-zero (no subtitle stream to map), a call raises another
\* exception, or the track is extracted to a temporary .srt file
ExtractOutcomes == {"not_installed", "probe_nonzero", "extract_nonzero", "tool_raises", "extracted"}

\* extract_subtitles_from_video
extract_subtitles_from_video(file_path, outcome) ==
    IF outcome = "extracted" THEN parse_subtitle_text_file("extracted.srt", ".srt")
    ELSE <<>>

\* why parse_subtitle_file could not read any subtitle, "" when it could
ParseFailure(file_path, outcome) ==
    LET ext == FileExt(file_path)
    IN  IF file_path = "<null>" THEN ""
        ELSE IF ext \in {".srt", ".vtt"}
        THEN IF Readable(file_path) THEN "" ELSE "unreadable"
        ELSE IF ext \in {".mp4", ".mkv", ".avi"}
             THEN IF outcome = "extracted" THEN "" ELSE outcome
             ELSE "unsupported"

\* parse_subtitle_file
parse_subtitle_file(file_path, outcome) ==
    LET file_ext == FileExt(file_path)
    IN  IF file_ext \in {".srt", ".vtt"} THEN parse_subtitle_text_file(file_path, file_ext)
        ELSE IF file_ext \in {".mp4", ".mkv", ".avi"}
             THEN extract_subtitles_from_video(file_path, outcome)
             ELSE <<>>

\* the pipeline of model m on full_text: the models are functions of the text
Classify(m, full_text) ==
    LET has(w) == \E k \in 1..Len(full_text) : full_text[k] = w
    IN  IF m = 1
        THEN IF has("slur") THEN [shape |-> "dicts", items |-> <<[label |-> "toxic", score |-> 900]>>]
             ELSE IF has("fight") THEN [shape |-> "dicts", items |-> <<[label |-> "THREAT", score |-> 700]>>]
             ELSE [shape |-> "dicts", items |-> <<[label |-> "POSITIVE", score |-> 990]>>]
        ELSE IF has("fight") THEN [shape |-> "dicts", items |-> <<[label |-> "threat", score |-> 400]>>]
             ELSE [shape |-> "dicts", items |-> <<>>]

\* what the pipelines return for full_text when the call of model `failing`
\* raises (0: none does)
PipelineResults(full_text, failing) ==
    [m \in 1..Len(LoadedModels) |->
        IF m = failing THEN [shape |-> "raises", items |-> <<>>] ELSE Classify(m, full_text)]

\* f"{context_before} {text} {context_after}".strip()
FullText(text, context_before, context_after) == context_before \o text \o context_after

\* analyze_subtitle_text on one entry
analyze_subtitle_text(text, context_before, context_after, failing) ==
    analyze_text(LoadedModels,
                 PipelineResults(FullText(text, context_before, context_after), failing),
                 text)

\* ======================================================= app/worker.py
VARIABLES
    pc,            \* where the worker task is: the await it is suspended at
    queue,         \* the Redis list "scan_jobs"; BRPOP takes its last element
    running,       \* NLPWorker.running
    redis_client,  \* "none", "open" or "closed"
    db_session,    \* "none", "open" or "closed"
    job,           \* the locals of process_job
    db,            \* the committed rows of files, scan_results and triggers
    pending,       \* the writes of the session's open transaction
    next_scan_id,  \* the sequence behind scan_results.id
    faults,        \* failures the environment may still inject
    cancelAt,      \* the await at which worker_task.cancel() was delivered
    hist,          \* what the job in hand has done so far
    agg,           \* one call of analyze_text on drawn pipeline outputs
    registry       \* the ModelManager: self.models and the rows of nlp_models

vars == <<pc, queue, running, redis_client, db_session, job, db, pending,
          next_scan_id, faults, cancelAt, hist, agg, registry>>

\* the ModelManager before initialize() is called
RegistryIdle ==
    [rows |-> <<>>, models |-> {}, op |-> "none", todo |-> <<>>, cur |-> 0, step |-> "",
     customs |-> 0]

\* json.loads(job_json) gave None for "file_path"
NullPath == "<null>"

Paths == {"two.srt", "empty.srt", "gone.srt", "new.vtt", "notes.txt", "movie.mkv"}

\* the rows of the files table: path -> id
FileId(file_path) ==
    CASE file_path = "two.srt" -> 11
      [] file_path = "empty.srt" -> 12
      [] file_path = "gone.srt" -> 13
      [] file_path = "notes.txt" -> 14
      [] file_path = "movie.mkv" -> 15
      [] OTHER -> 0
InFilesTable == {p \in Paths : FileId(p) # 0}

\* what can be on the queue: text that is no JSON, an object without "id", an
\* object without "file_path", and jobs
Payloads ==
    {[kind |-> "badjson", file_path |-> ""],
     [kind |-> "noid", file_path |-> "two.srt"],
     [kind |-> "nopath", file_path |-> ""]}
    \cup {[kind |-> "job", file_path |-> p] : p \in Paths \cup {NullPath}}

NoSummary == [overall_risk_score |-> [num |-> -1, den |-> 1], highest_severity |-> "unset"]

NoJob ==
    [file_path |-> "", subtitle_entries |-> <<>>, i |-> 0, all_triggers |-> <<>>,
     summary |-> NoSummary]

NoHist ==
    [in_job |-> FALSE,      \* process_job was entered for the payload in hand
     finished |-> FALSE,    \* process_job returned
     written |-> <<>>,      \* the statuses passed to update_file_status, in order
     committed |-> <<>>,    \* those whose UPDATE was committed
     segmented |-> FALSE,   \* parse_subtitle_file returned
     parse_failure |-> "",  \* why it found no subtitle, if it could not read any
     analysed |-> 0,        \* calls of analyze_subtitle_text that returned
     model_failed |-> <<>>, \* per call, the model whose pipeline raised (0: none)
     raised |-> "",         \* the step whose exception reached process_job's handler
     store_calls |-> 0,     \* calls of store_scan_results
     store_fault |-> "",    \* the statement of store_scan_results that failed
     scan_id |-> 0,         \* id of the scan_results row the job committed
     errored |-> FALSE,     \* the loop's "except Exception" has run
     faults0 |-> 0,         \* the failures left to inject when the job was taken
     prev |-> [file_path |-> "", written |-> <<>>, parse_failure |-> "", analysed |-> 0,
               store_calls |-> 0, scan_id |-> 0, clean |-> FALSE]]
                            \* the run of process_job before this one

JobPcs == {"update_processing", "parse", "update_completed_empty", "analyze",
           "store", "update_completed", "update_error"}
LoopAwaits == {"brpop", "backoff"} \cup JobPcs

\* ---- the session
\* an INSERT that takes the place of the file's earlier scan result
ApplyWriteUpsert(d, w) ==
    CASE w.table = "files" ->
            IF w.row.path \in DOMAIN d.files
            THEN [d EXCEPT !.files[w.row.path] = w.row.scan_status]
            ELSE d
      [] w.table = "scan_results" ->
            [d EXCEPT !.scan_results =
                 Append(SelectSeq(@, LAMBDA r : r.file_id # w.row.file_id), w.row)]
      [] OTHER -> [d EXCEPT !.triggers = Append(@, w.row)]

ApplyWrite(d, w) ==
    CASE w.table = "files" ->
            IF w.row.path \in DOMAIN d.files
            THEN [d EXCEPT !.files[w.row.path] = w.row.scan_status]
            ELSE d
      [] w.table = "scan_results" -> [d EXCEPT !.scan_results = Append(@, w.row)]
      [] OTHER -> [d EXCEPT !.triggers = Append(@, w.row)]

RECURSIVE ApplyWrites(_, _)
ApplyWrites(d, ws) ==
    IF ws = <<>> THEN d ELSE ApplyWrites(ApplyWrite(d, Head(ws)), Tail(ws))

\* db_session.rollback(): the open transaction's writes are dropped
RollbackSkipped(ws) == ws
Rollback(ws) == <<>>

StatusWrite(file_path, status) ==
    [table |-> "files", row |-> [path |-> file_path, scan_status |-> status]]

\* update_file_status; fault is the statement that raises ("execute",
\* "commit") or "none". The result is the committed rows and the open
\* transaction it leaves.
update_file_status(d, ws, file_path, status, fault) ==
    IF fault \in {"execute", "commit"}
    THEN [db |-> d,
          pending |-> Rollback(IF fault = "commit"
                               THEN Append(ws, StatusWrite(file_path, status))
                               ELSE ws)]
    ELSE [db |-> ApplyWrites(d, Append(ws, StatusWrite(file_path, status))),
          pending |-> <<>>]

ResultWrite(id, file_path, triggers, summary) ==
    [table |-> "scan_results",
     row |-> [id |-> id, file_id |-> FileId(file_path), model_version |-> "v1.0",
              overall_risk_score |-> summary.overall_risk_score,
              highest_severity |-> summary.highest_severity,
              total_triggers |-> Len(triggers)]]

TriggerWrite(id, t) ==
    [table |-> "triggers",
     row |-> [scan_result_id |-> id, category |-> t.category, severity |-> t.severity,
              confidence_score |-> t.confidence, timestamp_start |-> t.timestamp_start,
              timestamp_end |-> t.timestamp_end, subtitle_text |-> t.subtitle_text,
              context_before |-> t.context_before, context_after |-> t.context_after]]

\* The statements of store_scan_results, numbered: 1 the SELECT, 2 the INSERT
\* of the scan result, 2 + k the INSERT of trigger k, Len(triggers) + 3 the
\* commit. fail_at is the one that raises, 0 when none does.
StoreFaultName(fail_at, n) ==
    CASE fail_at = 0 -> ""
      [] fail_at = 1 -> "select"
      [] fail_at = 2 -> "insert_result"
      [] fail_at = n + 3 -> "commit"
      [] OTHER -> "insert_trigger"

\* store_scan_results: the committed rows, the open transaction and the
\* sequence value it leaves, and the id of the row it committed (0 when none)
store_scan_results(d, ws, next_id, file_path, triggers, summary, fail_at) ==
    LET n == Len(triggers)
        result == ResultWrite(next_id, file_path, triggers, summary)
        inserted(k) == [j \in 1..k |-> TriggerWrite(next_id, triggers[j])]
    IN  IF fail_at = 1
        THEN [db |-> d, pending |-> Rollback(ws), next_id |-> next_id, scan_id |-> 0]
        ELSE IF file_path \notin InFilesTable
        THEN [db |-> d, pending |-> ws, next_id |-> next_id, scan_id |-> 0]
        ELSE IF fail_at = 2
        THEN [db |-> d, pending |-> Rollback(ws), next_id |-> next_id, scan_id |-> 0]
        ELSE IF fail_at \in 3..(n + 2)
        THEN [db |-> d,
              pending |-> Rollback(Append(ws, result) \o inserted(fail_at - 3)),
              next_id |-> next_id + 1, scan_id |-> 0]
        ELSE IF fail_at = n + 3
        THEN [db |-> d,
              pending |-> Rollback(Append(ws, result) \o inserted(n)),
              next_id |-> next_id + 1, scan_id |-> 0]
        ELSE [db |-> ApplyWrites(d, Append(ws, result) \o inserted(n)),
              pending |-> <<>>, next_id |-> next_id + 1, scan_id |-> next_id]

\* ---- process_job, lines 116-132
RECURSIVE TotalScore(_)
TotalScore(ts) ==
    IF ts = <<>> THEN 0 ELSE Head(ts).score * Head(ts).confidence + TotalScore(Tail(ts))

RECURSIVE TotalWeight(_)
TotalWeight(ts) ==
    IF ts = <<>> THEN 0 ELSE Head(ts).confidence + TotalWeight(Tail(ts))

MaxSeverityLevelFirst(ts) ==
    IF ts = <<>> THEN 0 ELSE SeverityRank(Head(ts).severity)
RECURSIVE MaxSeverityLevel(_)
MaxSeverityLevel(ts) ==
    IF ts = <<>> THEN 0 ELSE Max(SeverityRank(Head(ts).severity), MaxSeverityLevel(Tail(ts)))

SeverityName(level) ==
    CASE level = 1 -> "mild" [] level = 2 -> "moderate" [] level = 3 -> "severe" [] OTHER -> "none"

\* overall_risk_score is the fraction num/den, in thousandths
Summary(all_triggers) ==
    IF all_triggers # <<>>
    THEN [overall_risk_score |->
              IF TotalWeight(all_triggers) > 0
              THEN [num |-> TotalScore(all_triggers), den |-> TotalWeight(all_triggers)]
              ELSE [num |-> 0, den |-> 1],
          highest_severity |-> SeverityName(MaxSeverityLevel(all_triggers))]
    ELSE [overall_risk_score |-> [num |-> 0, den |-> 1], highest_severity |-> "none"]

\* trigger.update({...}) of lines 107-113
AttachEntry(trigger, entry, context_before, context_after) ==
    [category |-> trigger.category, severity |-> trigger.severity,
     score |-> trigger.score, confidence |-> trigger.confidence,
     model_name |-> trigger.model_name, model_label |-> trigger.model_label,
     text |-> trigger.text,
     timestamp_start |-> entry.start_time, timestamp_end |-> entry.end_time,
     subtitle_text |-> entry.text,
     context_before |-> context_before, context_after |-> context_after]

\* the body of "for i, entry in enumerate(subtitle_entries)" for index i
\* (from 0): the triggers it appends to all_triggers
EntryTriggers(subtitle_entries, i, failing) ==
    LET entry == subtitle_entries[i + 1]
        context_before == IF i > 0 THEN subtitle_entries[i].text ELSE <<>>
        context_after == IF i < Len(subtitle_entries) - 1
                         THEN subtitle_entries[i + 2].text ELSE <<>>
        triggers == analyze_subtitle_text(entry.text, context_before, context_after, failing)
    IN  [k \in 1..Len(triggers) |->
            AttachEntry(triggers[k], entry, context_before, context_after)]

\* ---- control flow
\* "while self.running" at the head of the loop
LoopHead(r) == IF r THEN "brpop" ELSE "cleanup"

\* "except Exception" of start: log, sleep one second, loop
AfterWorkerErrorPropagates == "failed"
AfterWorkerError == "backoff"

\* "except Exception" of process_job: whether it catches an exception of the
\* class. asyncio.CancelledError derives from BaseException.
JobCatchesAll(exc) == TRUE
JobCatchesNone(exc) == FALSE
JobCatches(exc) == exc = "Exception"

\* "if not subtitle_entries"
IsEmptyNever(subtitle_entries) == FALSE
IsEmpty(subtitle_entries) == subtitle_entries = <<>>

\* the "return" after the empty file was marked completed
AfterEmptyCompletedNoReturn == "store"
AfterEmptyCompleted == LoopHead(running)

\* the exceptions that leave parse_subtitle_file: os.path.splitext raises
\* TypeError when file_path is no string; a failing open() and every failure
\* of the extraction are caught inside
ParseRaisesUnreadable(file_path, outcome) ==
    file_path = NullPath \/ ParseFailure(file_path, outcome) = "unreadable"
ParseRaises(file_path, outcome) == file_path = NullPath

\* An exception raised in the try block of process_job at step `step`: the
\* handler marks the file, or the exception reaches the loop of start
RaiseInJob(h, step) ==
    /\ pc' = IF JobCatches("Exception") THEN "update_error" ELSE AfterWorkerError
    /\ hist' = [h EXCEPT !.raised = step,
                         !.errored = @ \/ ~JobCatches("Exception")]

\* ---- start, lines 44-46, and start_worker
Initialize ==
    /\ pc = "start"
    /\ redis_client' = "open"
    /\ db_session' = "open"
    /\ running' = TRUE
    /\ pc' = LoopHead(TRUE)
    /\ UNCHANGED <<queue, job, db, pending, next_scan_id, faults, cancelAt, hist, agg, registry>>

\* ping() raises: initialize re-raises, start_worker logs and re-raises
InitializeFails ==
    /\ pc = "start"
    /\ faults > 0
    /\ faults' = faults - 1
    /\ redis_client' = "open"
    /\ pc' = "failed"
    /\ UNCHANGED <<queue, running, db_session, job, db, pending, next_scan_id, cancelAt, hist, agg, registry>>

\* cancelled in ping(): start has no handler there, start_worker calls stop()
CancelInInitialize ==
    /\ pc = "start"
    /\ cancelAt = "none"
    /\ cancelAt' = pc
    /\ redis_client' = "open"
    /\ running' = FALSE
    /\ pc' = "done"
    /\ UNCHANGED <<queue, db_session, job, db, pending, next_scan_id, faults, hist, agg, registry>>

\* ---- the loop of start, lines 48-65
\* brpop times out on the empty list: job_data is None
BrpopTimeout ==
    /\ pc = "brpop"
    /\ queue = <<>>
    /\ pc' = LoopHead(running)
    /\ UNCHANGED <<queue, running, redis_client, db_session, job, db, pending,
                   next_scan_id, faults, cancelAt, hist, agg, registry>>

\* brpop returns a payload; json.loads, job['id'] and job["file_path"] follow
\* without an await
BrpopJob ==
    /\ pc = "brpop"
    /\ queue # <<>>
    /\ LET payload == queue[Len(queue)]
       IN  /\ queue' = SubSeq(queue, 1, Len(queue) - 1)
           /\ IF payload.kind = "job"
              THEN /\ job' = [NoJob EXCEPT !.file_path = payload.file_path]
                   /\ hist' = [NoHist EXCEPT
                                 !.in_job = TRUE,
                                 !.errored = hist.errored,
                                 !.faults0 = faults,
                                 !.prev = IF hist.finished
                                          THEN [file_path |-> job.file_path,
                                                written |-> hist.written,
                                                parse_failure |-> hist.parse_failure,
                                                analysed |-> hist.analysed,
                                                store_calls |-> hist.store_calls,
                                                scan_id |-> hist.scan_id,
                                                clean |-> faults = hist.faults0]
                                          ELSE NoHist.prev]
                   /\ pc' = "update_processing"
              ELSE /\ job' = NoJob
                   /\ hist' = [NoHist EXCEPT !.in_job = payload.kind = "nopath",
                                             !.errored = TRUE]
                   /\ pc' = AfterWorkerError
    /\ UNCHANGED <<running, redis_client, db_session, db, pending, next_scan_id,
                   faults, cancelAt, agg, registry>>

\* brpop raises (the queue is unreachable)
BrpopFails ==
    /\ pc = "brpop"
    /\ faults > 0
    /\ faults' = faults - 1
    /\ hist' = [hist EXCEPT !.errored = TRUE]
    /\ pc' = AfterWorkerError
    /\ UNCHANGED <<queue, running, redis_client, db_session, job, db, pending,
                   next_scan_id, cancelAt, agg, registry>>

\* asyncio.sleep(1) of the handler returns
Backoff ==
    /\ pc = "backoff"
    /\ pc' = LoopHead(running)
    /\ UNCHANGED <<queue, running, redis_client, db_session, job, db, pending,
                   next_scan_id, faults, cancelAt, hist, agg, registry>>

\* cancelled in brpop: "except asyncio.CancelledError: break"
CancelInBrpop ==
    /\ pc = "brpop"
    /\ cancelAt = "none"
    /\ cancelAt' = pc
    /\ pc' = "cleanup"
    /\ UNCHANGED <<queue, running, redis_client, db_session, job, db, pending,
                   next_scan_id, faults, hist, agg, registry>>

\* cancelled in asyncio.sleep(1): the await is inside the "except Exception"
\* handler, so no handler of start's try statement applies, CancelledError
\* leaves start before cleanup(), and start_worker calls stop()
CancelInBackoff ==
    /\ pc = "backoff"
    /\ cancelAt = "none"
    /\ cancelAt' = pc
    /\ running' = FALSE
    /\ pc' = "done"
    /\ UNCHANGED <<queue, redis_client, db_session, job, db, pending, next_scan_id,
                   faults, hist, agg, registry>>

\* cancelled at an await of process_job: in the try block the handler of
\* process_job decides; in the handler itself (update_error) nothing catches
\* it before start's "except asyncio.CancelledError: break"
CancelInJob ==
    /\ pc \in JobPcs
    /\ cancelAt = "none"
    /\ cancelAt' = pc
    /\ pc' = IF pc # "update_error" /\ JobCatches("CancelledError")
             THEN "update_error" ELSE "cleanup"
    /\ UNCHANGED <<queue, running, redis_client, db_session, job, db, pending,
                   next_scan_id, faults, hist, agg, registry>>

\* cleanup, and the return of start and start_worker
Cleanup ==
    /\ pc = "cleanup"
    /\ redis_client' = IF redis_client # "none" THEN "closed" ELSE redis_client
    /\ db_session' = IF db_session # "none" THEN "closed" ELSE db_session
    /\ pc' = "done"
    /\ UNCHANGED <<queue, running, job, db, pending, next_scan_id, faults, cancelAt,
                   hist, agg, registry>>

\* ---- process_job
StatusFaults == {"none", "execute", "commit"}

\* await self.update_file_status(file_path, status)
WriteStatus(status, fault) ==
    LET r == update_file_status(db, pending, job.file_path, status, fault)
    IN  /\ fault # "none" => faults > 0
        /\ faults' = IF fault # "none" THEN faults - 1 ELSE faults
        /\ db' = r.db
        /\ pending' = r.pending

Wrote(h, status, fault) ==
    [h EXCEPT !.written = Append(@, status),
              !.committed = IF fault = "none" THEN Append(@, status) ELSE @]

\* line 76
UpdateProcessing ==
    /\ pc = "update_processing"
    /\ \E fault \in StatusFaults :
          /\ WriteStatus("processing", fault)
          /\ hist' = Wrote(hist, "processing", fault)
    /\ pc' = "parse"
    /\ UNCHANGED <<queue, running, redis_client, db_session, job, next_scan_id,
                   cancelAt, agg, registry>>

\* lines 79-87
ParseSubtitleFile ==
    /\ pc = "parse"
    /\ \E outcome \in IF FileExt(job.file_path) = ".mkv" THEN ExtractOutcomes ELSE {"none"} :
          IF ParseRaises(job.file_path, outcome)
          THEN /\ RaiseInJob([hist EXCEPT !.parse_failure =
                                              ParseFailure(job.file_path, outcome)], "parse")
               /\ job' = job
          ELSE LET subtitle_entries == parse_subtitle_file(job.file_path, outcome)
                   h == [hist EXCEPT !.segmented = TRUE,
                                     !.parse_failure = ParseFailure(job.file_path, outcome)]
               IN  IF IsEmpty(subtitle_entries)
                   THEN /\ job' = [job EXCEPT !.subtitle_entries = subtitle_entries]
                        /\ hist' = h
                        /\ pc' = "update_completed_empty"
                   ELSE /\ hist' = h
                        /\ IF Len(subtitle_entries) > 0
                           THEN /\ job' = [job EXCEPT !.subtitle_entries = subtitle_entries]
                                /\ pc' = "analyze"
                           ELSE /\ job' = [job EXCEPT !.subtitle_entries = subtitle_entries,
                                                      !.summary = Summary(<<>>)]
                                /\ pc' = "store"
    /\ UNCHANGED <<queue, running, redis_client, db_session, db, pending, next_scan_id,
                   faults, cancelAt, agg, registry>>

\* lines 83-84
UpdateCompletedEmpty ==
    /\ pc = "update_completed_empty"
    /\ \E fault \in StatusFaults :
          /\ WriteStatus("completed", fault)
          /\ hist' = [Wrote(hist, "completed", fault) EXCEPT
                          !.finished = AfterEmptyCompleted \notin JobPcs]
    /\ pc' = AfterEmptyCompleted
    /\ UNCHANGED <<queue, running, redis_client, db_session, job, next_scan_id,
                   cancelAt, agg, registry>>

\* lines 89-114 for one entry, and lines 116-132 after the last; the pipeline
\* of one model may raise in the call
AnalyzeEntry ==
    /\ pc = "analyze"
    /\ \E failing \in 0..Len(LoadedModels) :
          /\ failing # 0 => faults > 0
          /\ faults' = IF failing # 0 THEN faults - 1 ELSE faults
          /\ IF analyze_text_raises(PipelineResults(<<>>, failing))
             THEN /\ RaiseInJob(hist, "model")
                  /\ job' = job
             ELSE LET all_triggers ==
                          job.all_triggers \o EntryTriggers(job.subtitle_entries, job.i, failing)
                      last == job.i + 1 >= Len(job.subtitle_entries)
                  IN  /\ job' = [job EXCEPT !.all_triggers = all_triggers,
                                            !.i = @ + 1,
                                            !.summary = IF last THEN Summary(all_triggers) ELSE @]
                      /\ pc' = IF last THEN "store" ELSE "analyze"
                      /\ hist' = [hist EXCEPT !.analysed = @ + 1,
                                              !.model_failed = Append(@, failing)]
    /\ UNCHANGED <<queue, running, redis_client, db_session, db, pending, next_scan_id,
                   cancelAt, agg, registry>>

\* an exception leaves analyze_subtitle_text
AnalyzeRaises ==
    /\ pc = "analyze"
    /\ faults > 0
    /\ faults' = faults - 1
    /\ RaiseInJob(hist, "analyze")
    /\ UNCHANGED <<queue, running, redis_client, db_session, job, db, pending,
                   next_scan_id, cancelAt, agg, registry>>

\* lines 135-141
StoreScanResults ==
    /\ pc = "store"
    /\ \E fail_at \in 0..(Len(job.all_triggers) + 3) :
          LET r == store_scan_results(db, pending, next_scan_id, job.file_path,
                                      job.all_triggers, job.summary, fail_at)
          IN  /\ fail_at > 0 => faults > 0
              /\ fail_at > 1 => job.file_path \in InFilesTable
              /\ faults' = IF fail_at > 0 THEN faults - 1 ELSE faults
              /\ db' = r.db
              /\ pending' = r.pending
              /\ next_scan_id' = r.next_id
              /\ hist' = [hist EXCEPT
                            !.store_calls = @ + 1,
                            !.store_fault = StoreFaultName(fail_at, Len(job.all_triggers)),
                            !.scan_id = r.scan_id]
    /\ pc' = "update_completed"
    /\ UNCHANGED <<queue, running, redis_client, db_session, job, cancelAt, agg, registry>>

\* line 144, and the return
UpdateCompleted ==
    /\ pc = "update_completed"
    /\ \E fault \in StatusFaults :
          /\ WriteStatus("completed", fault)
          /\ hist' = [Wrote(hist, "completed", fault) EXCEPT !.finished = TRUE]
    /\ pc' = LoopHead(running)
    /\ UNCHANGED <<queue, running, redis_client, db_session, job, next_scan_id,
                   cancelAt, agg, registry>>

\* line 151, and the return
UpdateError ==
    /\ pc = "update_error"
    /\ \E fault \in StatusFaults :
          /\ WriteStatus("error", fault)
          /\ hist' = [Wrote(hist, "error", fault) EXCEPT !.finished = TRUE]
    /\ pc' = LoopHead(running)
    /\ UNCHANGED <<queue, running, redis_client, db_session, job, next_scan_id,
                   cancelAt, agg, registry>>

\* ---- the specification of the worker
AggIdle ==
    [stage |-> "idle", weights |-> <<>>, outputs |-> <<>>, results |-> <<>>,
     combined |-> <<>>, summary |-> NoSummary]

InitDb ==
    [files |-> [p \in InFilesTable |-> "pending"], scan_results |-> <<>>, triggers |-> <<>>]

InitWorker ==
    /\ pc = "start"
    /\ running = FALSE
    /\ redis_client = "none"
    /\ db_session = "none"
    /\ job = NoJob
    /\ db = InitDb
    /\ pending = <<>>
    /\ next_scan_id = 1
    /\ faults = MaxFaults
    /\ cancelAt = "none"
    /\ hist = NoHist

Init ==
    /\ InitWorker
    /\ queue \in SeqsUpTo(Payloads, MaxQueue)
    /\ agg = AggIdle
    /\ registry = RegistryIdle

Next ==
    \/ Initialize \/ InitializeFails \/ CancelInInitialize
    \/ BrpopTimeout \/ BrpopJob \/ BrpopFails \/ Backoff
    \/ CancelInBrpop \/ CancelInBackoff \/ CancelInJob \/ Cleanup
    \/ UpdateProcessing \/ ParseSubtitleFile \/ UpdateCompletedEmpty
    \/ AnalyzeEntry \/ AnalyzeRaises \/ StoreScanResults
    \/ UpdateCompleted \/ UpdateError

Spec == Init /\ [][Next]_vars

\* ---- analyze_text on drawn pipeline outputs
PredLabels == {"THREAT", "threat", "toxic", "POSITIVE", "NSFW"}
PredScores == {200, 400, 700, 900}
Predictions == [label : PredLabels, score : PredScores]

PipelineOutputs ==
    {[shape |-> "dicts", items |-> s] : s \in SeqsUpTo(Predictions, MaxPreds)}
    \cup {[shape |-> "nested", items |-> <<>>], [shape |-> "raises", items |-> <<>>]}

\* nlp_models.weight of the two rows, in tenths; _load_models reads the rows
\* ORDER BY weight DESC, add_custom_model takes any float
ModelWeights == {<<10, 10>>, <<15, 10>>, <<15, 15>>, <<10, 5>>}

\* self.models when the rows carry these weights
ModelsWeighted(weights) ==
    [m \in 1..Len(LoadedModels) |-> [LoadedModels[m] EXCEPT !.weight = weights[m]]]

AggInit ==
    /\ InitWorker
    /\ queue = <<>>
    /\ agg \in {[stage |-> "input", weights |-> w, outputs |-> o, results |-> <<>>,
                 combined |-> <<>>, summary |-> NoSummary] :
                    w \in ModelWeights, o \in [1..Len(LoadedModels) -> PipelineOutputs]}
    /\ registry = RegistryIdle

\* analyze_text(text): results is the list handed to _combine_results
AggAnalyze ==
    /\ agg.stage = "input"
    /\ agg' = [agg EXCEPT
                 !.stage = IF analyze_text_raises(agg.outputs) THEN "raised" ELSE "analysed",
                 !.results = RunModels(ModelsWeighted(agg.weights), agg.outputs, 1, <<"text">>),
                 !.combined = analyze_text(ModelsWeighted(agg.weights), agg.outputs, <<"text">>)]
    /\ UNCHANGED <<pc, queue, running, redis_client, db_session, job, db, pending,
                   next_scan_id, faults, cancelAt, hist, registry>>

\* lines 116-132 of process_job on the triggers of a file of one segment
AggSummarize ==
    /\ agg.stage = "analysed"
    /\ agg' = [agg EXCEPT !.stage = "done", !.summary = Summary(agg.combined)]
    /\ UNCHANGED <<pc, queue, running, redis_client, db_session, job, db, pending,
                   next_scan_id, faults, cancelAt, hist, registry>>

AggNext == AggAnalyze \/ AggSummarize

AggSpec == AggInit /\ [][AggNext]_vars

\* ---- the ModelManager: loads and removals of models
\* rows of nlp_models (the id of a row is its position) before initialize()
MaxModels == 2
\* calls of add_custom_model
MaxCustom == 1

RowStates == [status : {"ready", "pending", "error"}, is_active : BOOLEAN]

\* the SELECT of _load_models: the ids of the active rows of status 'ready'
ReadyRows(rows) ==
    SelectSeq([k \in 1..Len(rows) |-> k],
              LAMBDA id : rows[id].is_active /\ rows[id].status = "ready")

\* _update_model_status, when its UPDATE succeeds
SetStatus(reg, id, status) == [reg EXCEPT !.rows[id].status = status]

\* _load_single_model is over for the row in hand: the next row of the loop
\* of _load_models, or the return of _load_models or add_custom_model
Continue(reg) ==
    IF reg.op = "load_models" /\ reg.todo # <<>>
    THEN [reg EXCEPT !.cur = Head(reg.todo), !.todo = Tail(reg.todo), !.step = "loading"]
    ELSE [reg EXCEPT !.op = "idle", !.cur = 0, !.step = ""]

\* a statement on the pool that may raise
DbCall(fault) ==
    /\ fault => faults > 0
    /\ faults' = IF fault THEN faults - 1 ELSE faults

\* initialize(): connect, _load_categories, the SELECT of _load_models; an
\* exception of any of them leaves initialize()
LoadModels ==
    /\ registry.op = "none"
    /\ \E fault \in BOOLEAN :
          /\ DbCall(fault)
          /\ registry' = IF fault THEN [registry EXCEPT !.op = "failed"]
                          ELSE Continue([registry EXCEPT !.op = "load_models",
                                                         !.todo = ReadyRows(registry.rows)])
    /\ UNCHANGED <<pc, queue, running, redis_client, db_session, job, db, pending,
                   next_scan_id, cancelAt, hist, agg>>

\* _load_single_model, lines 87-115: the status 'loading' is written, then
\* the tokenizer and the pipeline are created and the model is stored in
\* self.models; any of the three may raise
LoadSingleModelLoading ==
    /\ registry.step = "loading"
    /\ \E fault \in BOOLEAN, created \in BOOLEAN :
          /\ DbCall(fault)
          /\ fault => created
          /\ registry' =
                IF fault THEN [registry EXCEPT !.step = "error"]
                ELSE IF created
                THEN [SetStatus(registry, registry.cur, "loading") EXCEPT
                          !.models = @ \cup {registry.cur}, !.step = "ready"]
                ELSE [SetStatus(registry, registry.cur, "loading") EXCEPT !.step = "error"]
    /\ UNCHANGED <<pc, queue, running, redis_client, db_session, job, db, pending,
                   next_scan_id, cancelAt, hist, agg>>

\* lines 117-119: the status 'ready' is written
LoadSingleModelReady ==
    /\ registry.step = "ready"
    /\ \E fault \in BOOLEAN :
          /\ DbCall(fault)
          /\ registry' = IF fault THEN [registry EXCEPT !.step = "error"]
                          ELSE Continue(SetStatus(registry, registry.cur, "ready"))
    /\ UNCHANGED <<pc, queue, running, redis_client, db_session, job, db, pending,
                   next_scan_id, cancelAt, hist, agg>>

\* lines 121-123: the handler writes the status 'error' and raises again;
\* _load_models catches that, add_custom_model passes it to its caller
LoadSingleModelError ==
    /\ registry.step = "error"
    /\ \E fault \in BOOLEAN :
          /\ DbCall(fault)
          /\ LET reg == IF fault THEN registry
                        ELSE SetStatus(registry, registry.cur, "error")
             IN  registry' = IF reg.op = "load_models"
                             THEN [reg EXCEPT !.step = "error_outer"]
                             ELSE Continue(reg)
    /\ UNCHANGED <<pc, queue, running, redis_client, db_session, job, db, pending,
                   next_scan_id, cancelAt, hist, agg>>

\* _load_models, lines 66-69: the status 'error' is written again; an
\* exception of that UPDATE leaves _load_models and initialize()
LoadModelsError ==
    /\ registry.step = "error_outer"
    /\ \E fault \in BOOLEAN :
          /\ DbCall(fault)
          /\ registry' = IF fault
                          THEN [registry EXCEPT !.op = "failed", !.cur = 0, !.step = ""]
                          ELSE Continue(SetStatus(registry, registry.cur, "error"))
    /\ UNCHANGED <<pc, queue, running, redis_client, db_session, job, db, pending,
                   next_scan_id, cancelAt, hist, agg>>

\* add_custom_model: the INSERT of a row of status 'pending', then
\* _load_single_model of that row
AddCustomModel ==
    /\ registry.op = "idle"
    /\ registry.customs < MaxCustom
    /\ \E fault \in BOOLEAN :
          /\ DbCall(fault)
          /\ registry' =
                IF fault THEN [registry EXCEPT !.customs = @ + 1]
                ELSE [registry EXCEPT
                          !.rows = Append(@, [status |-> "pending", is_active |-> TRUE]),
                          !.cur = Len(registry.rows) + 1,
                          !.op = "add",
                          !.step = "loading",
                          !.customs = @ + 1]
    /\ UNCHANGED <<pc, queue, running, redis_client, db_session, job, db, pending,
                   next_scan_id, cancelAt, hist, agg>>

\* remove_model
RemoveModel ==
    /\ registry.op = "idle"
    /\ \E id \in 1..Len(registry.rows), fault \in BOOLEAN :
          /\ DbCall(fault)
          /\ registry' = [registry EXCEPT
                             !.models = @ \ {id},
                             !.rows[id].is_active = IF fault THEN @ ELSE FALSE]
    /\ UNCHANGED <<pc, queue, running, redis_client, db_session, job, db, pending,
                   next_scan_id, cancelAt, hist, agg>>

RegInit ==
    /\ InitWorker
    /\ queue = <<>>
    /\ agg = AggIdle
    /\ registry \in {[RegistryIdle EXCEPT !.rows = r] : r \in SeqsUpTo(RowStates, MaxModels)}

RegNext ==
    \/ LoadModels \/ LoadSingleModelLoading \/ LoadSingleModelReady
    \/ LoadSingleModelError \/ LoadModelsError \/ AddCustomModel \/ RemoveModel

RegSpec == RegInit /\ [][RegNext]_vars

\* ================================================================ claims
LastWritten == IF hist.written = <<>> THEN "" ELSE hist.written[Len(hist.written)]

\* the files row of the job in hand shows `status` whenever the UPDATE that
\* wrote it was the job's last committed one
Mirrored(status) ==
    (/\ hist.committed # <<>>
     /\ hist.committed[Len(hist.committed)] = status
     /\ job.file_path \in DOMAIN db.files)
    => db.files[job.file_path] = status

\* C1: a job in which a statement of store_scan_results failed ends with file
\* status 'error', never 'completed'.
C1_PersistenceFailureMarksError ==
    (hist.finished /\ hist.store_fault # "") =>
        /\ LastWritten = "error"
        /\ \A k \in 1..Len(hist.written) : hist.written[k] # "completed"

TriggerRowsOf(id) == {j \in 1..Len(db.triggers) : db.triggers[j].scan_result_id = id}

\* C2: in every state the committed rows are all-or-nothing per scan result:
\* each committed scan_results row has exactly total_triggers committed trigger
\* rows, each committed trigger row belongs to a committed scan_results row, and
\* no write of a failed insert stays in the session's open transaction, where a
\* later commit would pick it up.
C2_ResultAndTriggersAtomic ==
    /\ \A k \in 1..Len(db.scan_results) :
          Cardinality(TriggerRowsOf(db.scan_results[k].id)) = db.scan_results[k].total_triggers
    /\ \A j \in 1..Len(db.triggers) :
          \E k \in 1..Len(db.scan_results) :
              db.scan_results[k].id = db.triggers[j].scan_result_id
    /\ pending = <<>>

\* a job of several triggers finished after an INSERT of a trigger row failed
C2_Witness ==
    /\ hist.finished
    /\ hist.store_fault = "insert_trigger"
    /\ Len(job.all_triggers) > 1

\* C3: the statuses process_job writes for a job are 'processing' first, before
\* segmentation, then at most one of 'completed' and 'error', and nothing after
\* it; a job process_job returned from has written exactly one of the two; the
\* files row shows the last status whose write was committed.
C3_StatusStateMachine ==
    /\ hist.written \in {<<>>, <<"processing">>, <<"processing", "completed">>,
                         <<"processing", "error">>}
    /\ (hist.segmented \/ pc \in JobPcs \ {"update_processing"}) =>
          (hist.written # <<>> /\ hist.written[1] = "processing")
    /\ pc = "parse" => hist.written = <<"processing">>
    /\ hist.finished => Len(hist.written) = 2
    /\ hist.finished => Mirrored(LastWritten)

\* a job with segments went through processing, persistence and completed
C3_Witness ==
    /\ hist.finished
    /\ hist.written = <<"processing", "completed">>
    /\ hist.store_calls = 1
    /\ job.file_path = "two.srt"
    /\ db.files["two.srt"] = "completed"

\* the state of a job after an exception reached the handler of process_job
C4_FailureState ==
    hist.raised # "" =>
        /\ pc \in {"update_error", "brpop", "backoff", "cleanup", "done"}
        /\ hist.store_calls = 0
        /\ hist.scan_id = 0
        /\ hist.analysed = job.i
        /\ job.summary = NoSummary
        /\ (pc # "update_error" /\ cancelAt # "update_error") =>
              /\ hist.finished
              /\ hist.written = <<"processing", "error">>
              /\ Mirrored("error")

\* C4: once an exception has reached the handler of process_job, the job
\* analyses no further segment and persists nothing, the only status written
\* after it is 'error' (written unless the task is cancelled first), and the
\* worker never adds to the queue.
C4_UncaughtFailureMarksError ==
    /\ []C4_FailureState
    /\ [][Len(queue') <= Len(queue)]_vars

\* the analysis of the first of two segments raised, the job ended in 'error'
\* with the second segment never analysed
C4_Witness ==
    /\ hist.raised = "analyze"
    /\ hist.finished
    /\ Len(job.subtitle_entries) = 2
    /\ hist.analysed = 0
    /\ db.files[job.file_path] = "error"

\* C5: the worker leaves the loop (cleanup, done) only after a cancellation was
\* delivered; it fails only in initialize, before the loop; and after any
\* exception in the loop (bad payload, missing key, queue failure) it is still
\* in the loop, running, with both connections open.
C5_LoopExitsOnlyOnCancel ==
    /\ pc \in {"cleanup", "done"} => cancelAt # "none"
    /\ pc = "failed" => ~running
    /\ (hist.errored /\ cancelAt = "none") =>
          /\ pc \in LoopAwaits
          /\ running
          /\ redis_client = "open"
          /\ db_session = "open"

\* a job was processed to completion after the loop had handled an exception
C5_Witness ==
    /\ hist.errored
    /\ hist.finished
    /\ cancelAt = "none"
    /\ LastWritten = "completed"
    /\ pc = "brpop"

\* C6: when the task was cancelled at an await of the consumer loop and
\* start_worker has returned, the queue connection and the store session are
\* closed.
C6_CancelRunsCleanup ==
    (pc = "done" /\ cancelAt \in LoopAwaits) =>
        (redis_client = "closed" /\ db_session = "closed")

\* C7: a cancellation delivered at an await of process_job after the job was
\* marked 'processing' writes no status: the job is left with 'processing' as
\* its only status, in the files row too, and the task goes to cleanup.
C7_CancelKeepsInFlightStatus ==
    cancelAt \in JobPcs \ {"update_processing"} =>
        /\ hist.written = <<"processing">>
        /\ ~hist.finished
        /\ pc \in {"cleanup", "done"}
        /\ Mirrored("processing")

\* cancelled while waiting for store_scan_results, the file is left 'processing'
C7_Witness ==
    /\ cancelAt = "store"
    /\ pc = "done"
    /\ job.file_path = "two.srt"
    /\ db.files["two.srt"] = "processing"
    /\ db.scan_results = <<>>

\* C8: when the segmenter cannot read any subtitle (unreadable file,
\* unsupported extension, no subtitle track, extraction tool failing or not
\* installed) it returns the empty sequence without raising, nothing is
\* analysed or persisted, 'error' is never written, and process_job returns
\* with 'completed'.
C8_ParseFailureCompletes ==
    (hist.parse_failure # "" /\ pc # "parse") =>
        /\ hist.segmented
        /\ hist.raised = ""
        /\ job.subtitle_entries = <<>>
        /\ hist.analysed = 0
        /\ hist.store_calls = 0
        /\ \A k \in 1..Len(hist.written) : hist.written[k] # "error"
        /\ pc \notin JobPcs \ {"update_completed_empty"}
        /\ hist.finished => (hist.written = <<"processing", "completed">> /\ Mirrored("completed"))

\* the video had no subtitle stream to extract and the job completed
C8_Witness ==
    /\ hist.finished
    /\ hist.parse_failure = "extract_nonzero"
    /\ db.files["movie.mkv"] = "completed"

ZeroSegments == hist.segmented /\ job.subtitle_entries = <<>>

\* C9 as stated: a finished job of zero segments has overall_risk_score 0,
\* highest_severity 'none' and total_triggers 0 (in the summary process_job
\* computed, or in the scan result it stored), status 'completed', and no
\* analysis was invoked.
C9_ZeroSegmentsSummary ==
    (hist.finished /\ ZeroSegments) =>
        /\ \/ job.summary = Summary(<<>>)
           \/ \E k \in 1..Len(db.scan_results) :
                 /\ db.scan_results[k].id = hist.scan_id
                 /\ db.scan_results[k].overall_risk_score.num = 0
                 /\ db.scan_results[k].highest_severity = "none"
                 /\ db.scan_results[k].total_triggers = 0
        /\ LastWritten = "completed"
        /\ hist.analysed = 0

\* C9 amended: a job of zero segments invokes no analysis, computes no summary
\* and calls store_scan_results not at all, so it stores no scan result and no
\* trigger row, and it returns with status 'completed'.
C9_ZeroSegmentsCompleteWithoutResult ==
    ZeroSegments =>
        /\ hist.analysed = 0
        /\ job.all_triggers = <<>>
        /\ job.summary = NoSummary
        /\ hist.store_calls = 0
        /\ hist.scan_id = 0
        /\ hist.raised = ""
        /\ hist.finished => (hist.written = <<"processing", "completed">> /\ Mirrored("completed"))

\* the file whose only block has no text left completed with no scan result
C9_Witness ==
    /\ hist.finished
    /\ job.file_path = "empty.srt"
    /\ ZeroSegments
    /\ db.files["empty.srt"] = "completed"
    /\ db.scan_results = <<>>

ResultsOfCategory(category) == SelectSeq(agg.results, LAMBDA r : r.category = category)

\* C10: when exactly two detections of a category reach _combine_results in
\* one analyze_text call, the category's trigger has the more severe of the two
\* severities, the mean of the two scores, the larger confidence and both model
\* names joined, in whichever order they arrived.
C10_MergeOfTwo ==
    agg.stage = "done" =>
        \A category \in DOMAIN Categories :
            LET ds == ResultsOfCategory(category)
            IN  Len(ds) = 2 =>
                    \E k \in 1..Len(agg.combined) :
                        LET t == agg.combined[k]
                        IN  /\ t.category = category
                            /\ SeverityRank(t.severity) =
                                   Max(SeverityRank(ds[1].severity), SeverityRank(ds[2].severity))
                            /\ t.score = Round3Half(ds[1].score + ds[2].score)
                            /\ t.confidence = Max(ds[1].confidence, ds[2].confidence)
                            /\ t.model_name = ds[1].model_name \o ds[2].model_name

Reverse(seq) == [k \in 1..Len(seq) |-> seq[Len(seq) + 1 - k]]

\* what a trigger list says per category, whatever the order of the list
TriggerView(triggers) ==
    {[category |-> triggers[k].category, severity |-> triggers[k].severity,
      score |-> triggers[k].score] : k \in 1..Len(triggers)}

\* analyze_text of the same segment with self.models in the opposite order
CombinedReversed ==
    analyze_text(Reverse(ModelsWeighted(agg.weights)), Reverse(agg.outputs), <<"text">>)

\* C11: the triggers analyze_text returns for a segment (category, severity
\* and averaged score of each) are the same when the models produce their
\* detections in the opposite order.
C11_MergeOrderIndependent ==
    agg.stage = "done" => TriggerView(CombinedReversed) = TriggerView(agg.combined)

\* C12: no trigger analyze_text returns has severity 'none'.
C12_NoNoneSeverity ==
    agg.stage = "done" =>
        \A k \in 1..Len(agg.combined) : agg.combined[k].severity # "none"

\* C13: the overall_risk_score process_job computes from a trigger list lies
\* within [0, 1], and it is 0 exactly when the list is empty.
C13_RiskScoreInUnitRange ==
    agg.stage = "done" =>
        LET r == agg.summary.overall_risk_score
        IN  /\ 0 <= r.num
            /\ r.num <= 1000 * r.den
            /\ (r.num = 0) <=> (agg.combined = <<>>)

C17_OneTriggerPerCategory ==
    agg.stage = "done" =>
        /\ \A j, k \in 1..Len(agg.combined) :
               agg.combined[j].category = agg.combined[k].category => j = k
        /\ {agg.combined[k].category : k \in 1..Len(agg.combined)}
              = {agg.results[k].category : k \in 1..Len(agg.results)}

\* both models detected violence, one of them hate_speech too
C17_Witness ==
    /\ agg.stage = "done"
    /\ Len(ResultsOfCategory("violence")) = 2
    /\ Len(ResultsOfCategory("hate_speech")) = 1
    /\ Len(agg.combined) = 2

\* the categories the label of a prediction maps to that _load_categories did
\* not load
UnknownCategoriesOf(m, pred) ==
    LET model_info == ModelsWeighted(agg.weights)[m]
        cats == map_label_to_categories(Upper(pred.label), model_info.categories,
                                        model_info.config)
    IN  {cats[k] : k \in 1..Len(cats)} \ DOMAIN Categories

\* C19: a prediction whose label maps to a category that is not configured
\* yields a trigger of that category, with the severity of the fallback bands.
C19_UnknownCategoryFallback ==
    agg.stage = "done" =>
        \A m \in 1..Len(agg.outputs) :
            agg.outputs[m].shape = "dicts" =>
                \A i \in 1..Len(agg.outputs[m].items) :
                    \A category \in UnknownCategoriesOf(m, agg.outputs[m].items[i]) :
                        \E k \in 1..Len(agg.combined) :
                            /\ agg.combined[k].category = category
                            /\ agg.combined[k].severity \in {"mild", "moderate", "severe"}

\* C15: the k-th segment the segmenter returns has index k.
C15_SegmentIndicesDense ==
    hist.segmented =>
        \A k \in 1..Len(job.subtitle_entries) : job.subtitle_entries[k].number = k

\* the triggers accumulated for the k-th segment of the job in hand
SegmentTriggers(k) ==
    SelectSeq(job.all_triggers,
              LAMBDA t : t.timestamp_start = job.subtitle_entries[k].start_time)

\* what analyze_text returns for the k-th segment when only the models other
\* than `failing` are loaded
TriggersWithout(k, failing) ==
    LET entries == job.subtitle_entries
        context_before == IF k > 1 THEN entries[k - 1].text ELSE <<>>
        context_after == IF k < Len(entries) THEN entries[k + 1].text ELSE <<>>
        full_text == FullText(entries[k].text, context_before, context_after)
        others == SelectSeq([m \in 1..Len(LoadedModels) |-> m], LAMBDA m : m # failing)
    IN  analyze_text([j \in 1..Len(others) |-> LoadedModels[others[j]]],
                     [j \in 1..Len(others) |-> Classify(others[j], full_text)],
                     entries[k].text)

Detection(t) ==
    [category |-> t.category, severity |-> t.severity, score |-> t.score,
     confidence |-> t.confidence, model_name |-> t.model_name]

\* C16: a pipeline that raises never makes analyze_text raise; the triggers of
\* each analysed segment are those of the models that did not raise for it,
\* merged; and a job that reaches persistence has analysed every segment.
C16_ModelFailureIsolated ==
    /\ hist.raised # "model"
    /\ Len(hist.model_failed) = hist.analysed
    /\ \A k \in 1..hist.analysed :
          LET got == SegmentTriggers(k)
              want == TriggersWithout(k, hist.model_failed[k])
          IN  [j \in 1..Len(got) |-> Detection(got[j])]
                  = [j \in 1..Len(want) |-> Detection(want[j])]
    /\ pc \in {"store", "update_completed"} => hist.analysed = Len(job.subtitle_entries)

\* toxic-bert raised on the first segment of two.srt: that segment has the
\* detection of threat-net alone, the second segment those of both models, and
\* the job completed
C16_Witness ==
    /\ hist.finished
    /\ job.file_path = "two.srt"
    /\ hist.model_failed = <<1, 0>>
    /\ Len(SegmentTriggers(1)) = 1
    /\ SegmentTriggers(1)[1].model_name = <<"threat-net">>
    /\ Len(SegmentTriggers(2)) = 2
    /\ LastWritten = "completed"

\* C18: a finished job of at least one segment whose last status is
\* 'completed' has committed exactly one scan_results row, whose
\* total_triggers is the number of trigger rows committed for it.
C18_PersistenceBeforeCompleted ==
    (hist.finished /\ job.subtitle_entries # <<>> /\ LastWritten = "completed") =>
        /\ hist.scan_id # 0
        /\ Cardinality({k \in 1..Len(db.scan_results) :
                            db.scan_results[k].id = hist.scan_id}) = 1
        /\ \A k \in 1..Len(db.scan_results) :
               db.scan_results[k].id = hist.scan_id =>
                   db.scan_results[k].total_triggers = Cardinality(TriggerRowsOf(hist.scan_id))

\* the committed scan_results row of an id, and its trigger rows in order,
\* without the id
ResultRowOf(id) ==
    LET rows == SelectSeq(db.scan_results, LAMBDA r : r.id = id)
    IN  [j \in 1..Len(rows) |-> [rows[j] EXCEPT !.id = 0]]
TriggerRowsWithoutId(id) ==
    LET rows == SelectSeq(db.triggers, LAMBDA r : r.scan_result_id = id)
    IN  [j \in 1..Len(rows) |-> [rows[j] EXCEPT !.scan_result_id = 0]]

\* the job in hand is the job before it delivered again, nothing failed in
\* either run, and the subtitle extraction of a video did the same in both
Redelivered ==
    /\ hist.finished
    /\ hist.prev.file_path = job.file_path
    /\ hist.prev.parse_failure = hist.parse_failure
    /\ hist.prev.clean
    /\ faults = hist.faults0

\* C20: the second run of a job delivered twice writes the same statuses,
\* analyses as many segments and calls store_scan_results as often as the
\* first; when the first run committed a scan result, the second commits
\* another under a new id, the first stays, and the two rows and their trigger
\* rows are equal up to the id.
C20_RedeliveryReplays ==
    Redelivered =>
        /\ hist.written = hist.prev.written
        /\ hist.analysed = hist.prev.analysed
        /\ hist.store_calls = hist.prev.store_calls
        /\ (hist.scan_id = 0) <=> (hist.prev.scan_id = 0)
        /\ hist.prev.scan_id # 0 =>
              /\ hist.scan_id # hist.prev.scan_id
              /\ Len(ResultRowOf(hist.prev.scan_id)) = 1
              /\ ResultRowOf(hist.scan_id) = ResultRowOf(hist.prev.scan_id)
              /\ TriggerRowsWithoutId(hist.scan_id) = TriggerRowsWithoutId(hist.prev.scan_id)

\* two.srt was delivered twice: two scan results of four trigger rows each
C20_Witness ==
    /\ Redelivered
    /\ job.file_path = "two.srt"
    /\ LastWritten = "completed"
    /\ Len(db.scan_results) = 2
    /\ Len(db.triggers) = 8

\* C21: when no load is in progress, every model in self.models has 'ready'
\* as the last status written to its row of nlp_models.
C21_RegistryOnlyReady ==
    registry.op = "idle" =>
        \A id \in registry.models : registry.rows[id].status = "ready"

\* C22: when stop() has set running to false after the consumer loop was
\* entered and start_worker has returned, cleanup has closed the queue
\* connection and the store session.
C22_StopThenCleanup ==
    (pc = "done" /\ ~running /\ cancelAt # "start") =>
        (redis_client = "closed" /\ db_session = "closed")

====
